---- MODULE Spec2Model ----
(***************************************************************************)
(* Model of src/main.py: the Streamlit front-end (main) and the            *)
(* VideoTranscriber pipeline (process_video and the methods it calls).     *)
(* One click of "Start Transcription" is followed step by step through     *)
(* staging, extraction, model load, transcription, cleanup and the         *)
(* handling of the result in main.  The outcomes of the library and OS     *)
(* calls (tempfile, moviepy, whisper, os.unlink) are environment choices.  *)
(***************************************************************************)
EXTENDS Integers, FiniteSets, Sequences, TLC

\* ---------------------------------------------------------------- bounds
MaxRuns == 2        \* process_video invocations followed in one session
MaxElapsed == 2     \* measured durations range over 1..MaxElapsed

\* ------------------------------------------------------ program constants
MaxFileSize == 200 * 1024 * 1024
Selectors == {"tiny", "base", "small", "medium", "large"}
DefaultSelector == "base"

\* ------------------------------------------------------------ input sets
Sizes == {10 * 1024 * 1024, MaxFileSize, MaxFileSize + 1, 250 * 1024 * 1024}
Texts == {"", "hello world"}
StageVideoOutcomes == {"ok", "create_fail", "write_fail"}
StageAudioOutcomes == {"ok", "create_fail"}
ExtractOutcomes == {"ok", "open_fail", "no_audio", "write_fail"}
TranscribeOutcomes == Texts \cup {"<raise>"}

\* ------------------------------------------------------- special values
NONE == "<None>"          \* Python None (model handle, return value)
UNSET == "<unset>"        \* key absent from st.session_state
NoUpload == -1            \* st.file_uploader returned None
NoPath == <<>>            \* path variable not yet bound
StageErrors == {"load", "extract", "transcribe"}

VARIABLES
    pc,               \* position of the script run
    uploaded_file,    \* size of the uploaded file, or NoUpload
    model_size,       \* value of the selectbox in the current script run
    whisper_model,    \* transcriber.whisper_model: NONE or the selector it was loaded with
    files,            \* temporary files present in the filesystem
    video_path,       \* process_video local
    audio_path,       \* process_video local
    result,           \* value returned by process_video / held in `transcription`
    errors,           \* messages shown by st.error in the current script run
    transcription,    \* st.session_state.transcription
    processing_time,  \* st.session_state.processing_time (0: absent)
    run,              \* number of process_video invocations started
    lastGood,         \* last non-empty string returned by process_video
    obs               \* what happened in the current click's handling

vars == <<pc, uploaded_file, model_size, whisper_model, files, video_path,
          audio_path, result, errors, transcription, processing_time, run,
          lastGood, obs>>

obs0 ==
    [clicked |-> FALSE, invoked |-> FALSE, raised |-> FALSE, staged |-> FALSE,
     modelAtStart |-> NONE, created |-> 0, extracts |-> 0, extractRet |-> "none",
     loads |-> 0, transcribes |-> 0, usedHandle |-> NONE, text |-> NONE,
     opened |-> {}, closed |-> {}, cleanupRan |-> FALSE,
     unlinkAttempts |-> {}, unlinkFailed |-> {}]

Suffixes == {"mp4", "wav"}
Paths == {<<r, s>> : r \in 1..MaxRuns, s \in Suffixes}
RunFiles == {<<run, s>> : s \in Suffixes}

\* ------------------------------------------------------- pure helpers

\* main: `uploaded_file.size > 200 * 1024 * 1024`
OversizeInclusive(size) == size >= MaxFileSize
Oversize(size) == size > MaxFileSize

\* Python truthiness of a value that is None or a str
TruthyNotNone(v) == v # NONE
Truthy(v) == v # NONE /\ v # ""

\* `self.whisper_model is None`
NeedsLoadAlways(m) == TRUE
NeedsLoad(m) == m = NONE

\* load_whisper_model: ok is whether whisper.load_model returned
load_whisper_model(m, size, ok) ==
    IF ok THEN [model |-> size, ret |-> TRUE, err |-> {}]
          ELSE [model |-> m, ret |-> FALSE, err |-> {"load"}]

\* extract_audio_from_video: o is what moviepy does with the staged video
extract_audio_from_video(o) ==
    CASE o = "ok" ->
           [ret |-> TRUE, opened |-> {"video_clip", "audio_clip"},
            closed |-> {"video_clip", "audio_clip"}, err |-> {}]
      [] o = "open_fail" ->
           [ret |-> FALSE, opened |-> {}, closed |-> {}, err |-> {"extract"}]
      [] o = "no_audio" ->
           [ret |-> FALSE, opened |-> {"video_clip"}, closed |-> {},
            err |-> {"extract"}]
      [] o = "write_fail" ->
           [ret |-> FALSE, opened |-> {"video_clip", "audio_clip"},
            closed |-> {}, err |-> {"extract"}]

\* transcribe_with_whisper_only: m is self.whisper_model on entry, lok the
\* outcome of whisper.load_model if it is called, t the outcome of transcribe
transcribe_with_whisper_only(m, size, lok, t) ==
    LET need == NeedsLoad(m)
        ld == IF need THEN load_whisper_model(m, size, lok)
                      ELSE [model |-> m, ret |-> TRUE, err |-> {}]
        nl == IF need THEN 1 ELSE 0
    IN IF ~ld.ret
         THEN [model |-> ld.model, ret |-> NONE, err |-> ld.err, loads |-> nl,
               calls |-> 0, used |-> NONE]
       ELSE IF ld.model = NONE
         THEN [model |-> ld.model, ret |-> NONE, err |-> {"transcribe"},
               loads |-> nl, calls |-> 0, used |-> NONE]
       ELSE IF t = "<raise>"
         THEN [model |-> ld.model, ret |-> NONE, err |-> {"transcribe"},
               loads |-> nl, calls |-> 1, used |-> ld.model]
       ELSE [model |-> ld.model, ret |-> t, err |-> {}, loads |-> nl,
             calls |-> 1, used |-> ld.model]

\* ------------------------------------------------------------------ Init
Init ==
    /\ pc = "idle"
    /\ uploaded_file = NoUpload
    /\ model_size = DefaultSelector
    /\ whisper_model = NONE
    /\ files = {}
    /\ video_path = NoPath
    /\ audio_path = NoPath
    /\ result = NONE
    /\ errors = {}
    /\ transcription = UNSET
    /\ processing_time = 0
    /\ run = 0
    /\ lastGood = UNSET
    /\ obs = obs0

\* --------------------------------------------------------------- actions

\* main: the user puts a file in st.file_uploader; the script reruns and
\* redraws the page without pressing the button
Upload ==
    /\ pc = "idle"
    /\ \E size \in Sizes :
         /\ size # uploaded_file
         /\ uploaded_file' = size
    /\ errors' = {}
    /\ obs' = obs0
    /\ UNCHANGED <<pc, model_size, whisper_model, files, video_path, audio_path,
                   result, transcription, processing_time, run, lastGood>>

\* main: button pressed, the size check rejects the file
ClickOversize ==
    /\ pc = "idle"
    /\ uploaded_file # NoUpload
    /\ Oversize(uploaded_file)
    /\ \E ms \in Selectors : model_size' = ms
    /\ errors' = {"oversize"}
    /\ obs' = [obs0 EXCEPT !.clicked = TRUE]
    /\ UNCHANGED <<pc, uploaded_file, whisper_model, files, video_path,
                   audio_path, result, transcription, processing_time, run,
                   lastGood>>

\* main: button pressed, the file passes the size check, process_video is
\* called
ClickStart ==
    /\ pc = "idle"
    /\ uploaded_file # NoUpload
    /\ ~Oversize(uploaded_file)
    /\ run < MaxRuns
    /\ \E ms \in Selectors : model_size' = ms
    /\ run' = run + 1
    /\ pc' = "stage_video"
    /\ errors' = {}
    /\ video_path' = NoPath
    /\ audio_path' = NoPath
    /\ result' = NONE
    /\ obs' = [obs0 EXCEPT !.clicked = TRUE, !.invoked = TRUE,
                           !.modelAtStart = whisper_model]
    /\ UNCHANGED <<uploaded_file, whisper_model, files, transcription,
                   processing_time, lastGood>>

\* process_video: first `with tempfile.NamedTemporaryFile(delete=False ...)`
StageVideo ==
    /\ pc = "stage_video"
    /\ \E o \in StageVideoOutcomes :
         /\ files' = IF o = "create_fail" THEN files
                                          ELSE files \cup {<<run, "mp4">>}
         /\ video_path' = IF o = "ok" THEN <<run, "mp4">> ELSE video_path
         /\ pc' = IF o = "ok" THEN "stage_audio" ELSE "idle"
         /\ obs' = [obs EXCEPT
                      !.created = IF o = "create_fail" THEN @ ELSE @ + 1,
                      !.raised = (o # "ok")]
    /\ UNCHANGED <<uploaded_file, model_size, whisper_model, audio_path, result,
                   errors, transcription, processing_time, run, lastGood>>

\* process_video: second `with tempfile.NamedTemporaryFile(delete=False ...)`
StageAudio ==
    /\ pc = "stage_audio"
    /\ \E o \in StageAudioOutcomes :
         /\ files' = IF o = "ok" THEN files \cup {<<run, "wav">>} ELSE files
         /\ audio_path' = IF o = "ok" THEN <<run, "wav">> ELSE audio_path
         /\ pc' = IF o = "ok" THEN "extract" ELSE "idle"
         /\ obs' = [obs EXCEPT
                      !.created = IF o = "ok" THEN @ + 1 ELSE @,
                      !.staged = (o = "ok"),
                      !.raised = (o # "ok")]
    /\ UNCHANGED <<uploaded_file, model_size, whisper_model, video_path, result,
                   errors, transcription, processing_time, run, lastGood>>

\* process_video: `if not self.extract_audio_from_video(...): return None`
\* (a mutant that ignores the returned value)
ExtractIgnoreFailure ==
    /\ pc = "extract"
    /\ \E o \in ExtractOutcomes :
         LET r == extract_audio_from_video(o) IN
         /\ errors' = errors \cup r.err
         /\ pc' = "ensure_model"
         /\ obs' = [obs EXCEPT
                      !.extracts = @ + 1,
                      !.extractRet = IF r.ret THEN "ok" ELSE "fail",
                      !.opened = r.opened,
                      !.closed = r.closed]
    /\ result' = NONE
    /\ UNCHANGED <<uploaded_file, model_size, whisper_model, files, video_path,
                   audio_path, transcription, processing_time, run, lastGood>>

Extract ==
    /\ pc = "extract"
    /\ \E o \in ExtractOutcomes :
         LET r == extract_audio_from_video(o) IN
         /\ errors' = errors \cup r.err
         /\ pc' = IF r.ret THEN "ensure_model" ELSE "cleanup"
         /\ obs' = [obs EXCEPT
                      !.extracts = @ + 1,
                      !.extractRet = IF r.ret THEN "ok" ELSE "fail",
                      !.opened = r.opened,
                      !.closed = r.closed]
    /\ result' = NONE
    /\ UNCHANGED <<uploaded_file, model_size, whisper_model, files, video_path,
                   audio_path, transcription, processing_time, run, lastGood>>

\* process_video: `if self.whisper_model is None: if not self.load_...: return None`
EnsureModel ==
    /\ pc = "ensure_model"
    /\ \E ok \in BOOLEAN :
         LET need == NeedsLoad(whisper_model)
             r == IF need THEN load_whisper_model(whisper_model, model_size, ok)
                          ELSE [model |-> whisper_model, ret |-> TRUE, err |-> {}]
         IN
         /\ whisper_model' = r.model
         /\ errors' = errors \cup r.err
         /\ pc' = IF r.ret THEN "transcribe" ELSE "cleanup"
         /\ obs' = [obs EXCEPT !.loads = IF need THEN @ + 1 ELSE @]
    /\ result' = NONE
    /\ UNCHANGED <<uploaded_file, model_size, files, video_path, audio_path,
                   transcription, processing_time, run, lastGood>>

\* process_video: `transcription = self.transcribe_with_whisper_only(...)`
\* followed by `return transcription`
Transcribe ==
    /\ pc = "transcribe"
    /\ \E lok \in BOOLEAN, t \in TranscribeOutcomes :
         LET r == transcribe_with_whisper_only(whisper_model, model_size, lok, t) IN
         /\ whisper_model' = r.model
         /\ errors' = errors \cup r.err
         /\ result' = r.ret
         /\ obs' = [obs EXCEPT !.loads = @ + r.loads,
                               !.transcribes = @ + r.calls,
                               !.usedHandle = r.used,
                               !.text = r.ret]
    /\ pc' = "cleanup"
    /\ UNCHANGED <<uploaded_file, model_size, files, video_path, audio_path,
                   transcription, processing_time, run, lastGood>>

\* process_video: the `finally` block; vok and aok are whether os.unlink of
\* the video and of the audio file would succeed.  (A mutant that forgets
\* the audio file.)
CleanupVideoOnly ==
    /\ pc = "cleanup"
    /\ \E vok \in BOOLEAN :
         /\ files' = IF vok THEN files \ {video_path} ELSE files
         /\ obs' = [obs EXCEPT
                      !.cleanupRan = TRUE,
                      !.unlinkAttempts = {video_path},
                      !.unlinkFailed = IF vok THEN {} ELSE {video_path}]
    /\ pc' = "main_result"
    /\ lastGood' = IF result # NONE /\ result # "" THEN result ELSE lastGood
    /\ UNCHANGED <<uploaded_file, model_size, whisper_model, video_path,
                   audio_path, result, errors, transcription, processing_time,
                   run>>

Cleanup ==
    /\ pc = "cleanup"
    /\ \E vok \in BOOLEAN, aok \in BOOLEAN :
         /\ files' = IF ~vok THEN files
                     ELSE IF ~aok THEN files \ {video_path}
                     ELSE files \ {video_path, audio_path}
         /\ obs' = [obs EXCEPT
                      !.cleanupRan = TRUE,
                      !.unlinkAttempts = IF vok THEN {video_path, audio_path}
                                                ELSE {video_path},
                      !.unlinkFailed = IF ~vok THEN {video_path}
                                       ELSE IF ~aok THEN {audio_path}
                                       ELSE {}]
    /\ pc' = "main_result"
    /\ lastGood' = IF result # NONE /\ result # "" THEN result ELSE lastGood
    /\ UNCHANGED <<uploaded_file, model_size, whisper_model, video_path,
                   audio_path, result, errors, transcription, processing_time,
                   run>>

\* main: `if transcription: ... else: st.error("Failed to transcribe ...")`
MainResult ==
    /\ pc = "main_result"
    /\ \E d \in 1..MaxElapsed :
         IF Truthy(result)
           THEN /\ transcription' = result
                /\ processing_time' = d
                /\ errors' = errors
           ELSE /\ errors' = errors \cup {"failed"}
                /\ UNCHANGED <<transcription, processing_time>>
    /\ pc' = "idle"
    /\ UNCHANGED <<uploaded_file, model_size, whisper_model, files, video_path,
                   audio_path, result, run, lastGood, obs>>

Next ==
    \/ Upload
    \/ ClickOversize
    \/ ClickStart
    \/ StageVideo
    \/ StageAudio
    \/ Extract
    \/ EnsureModel
    \/ Transcribe
    \/ Cleanup
    \/ MainResult

Spec == Init /\ [][Next]_vars

\* what column 2 of the page shows: the stored text when it is truthy
Displayed ==
    IF transcription # UNSET /\ Truthy(transcription) THEN transcription ELSE UNSET

\* control has left process_video (returned or raised) in this click's handling
Left == obs.invoked /\ pc \in {"main_result", "idle"}
Returned == obs.invoked /\ obs.cleanupRan

TypeOK ==
    /\ pc \in {"idle", "stage_video", "stage_audio", "extract", "ensure_model",
               "transcribe", "cleanup", "main_result"}
    /\ uploaded_file \in Sizes \cup {NoUpload}
    /\ model_size \in Selectors
    /\ whisper_model \in Selectors \cup {NONE}
    /\ files \subseteq Paths
    /\ result \in Texts \cup {NONE}
    /\ transcription \in Texts \cup {UNSET}
    /\ processing_time \in 0..MaxElapsed
    /\ run \in 0..MaxRuns

\* ------------------------------------------------------------ properties

\* C1: an invocation of process_video that completed staging created exactly
\* two temporary files, and when it has returned with every unlink having
\* succeeded, neither of its two files is in the filesystem, whatever the
\* outcome of extraction, model load and transcription.
C1Thm ==
    /\ obs.staged => obs.created = 2
    /\ (Returned /\ obs.unlinkFailed = {}) =>
          /\ obs.staged
          /\ obs.created = 2
          /\ RunFiles \cap files = {}
          /\ video_path \notin files
          /\ audio_path \notin files
C1Wit ==
    /\ Returned
    /\ obs.unlinkFailed = {}
    /\ obs.created = 2
    /\ "transcribe" \in errors
    /\ result = NONE

\* C2: after Start Transcription is pressed on a file larger than 200 MiB,
\* process_video was not invoked, no temporary file was created and the
\* oversize error is shown; on a file of at most 200 MiB process_video was
\* invoked.
C2Thm ==
    obs.clicked =>
        IF uploaded_file > 200 * 1024 * 1024
          THEN /\ ~obs.invoked
               /\ obs.created = 0
               /\ "oversize" \in errors
               /\ pc = "idle"
          ELSE /\ obs.invoked
               /\ "oversize" \notin errors
C2Wit ==
    /\ obs.clicked
    /\ uploaded_file = MaxFileSize + 1
    /\ "oversize" \in errors
    /\ ~obs.invoked
    /\ run > 0

\* C3: the model handle used to transcribe in an invocation was loaded with
\* that invocation's size selector.
C3Claim ==
    obs.usedHandle # NONE => obs.usedHandle = model_size

\* C4: within one invocation the loader is called at most once, and an
\* invocation that starts with a handle loaded for its own selector calls
\* the loader not at all and transcribes with that cached handle.
C4Thm ==
    /\ obs.loads <= 1
    /\ (obs.invoked /\ obs.modelAtStart # NONE /\ obs.modelAtStart = model_size) =>
          /\ obs.loads = 0
          /\ whisper_model = obs.modelAtStart
          /\ (obs.transcribes > 0 => obs.usedHandle = obs.modelAtStart)
C4Wit ==
    /\ obs.invoked
    /\ obs.modelAtStart = model_size
    /\ obs.transcribes = 1
    /\ obs.loads = 0
    /\ run = 2

\* C5: when audio extraction fails, the loader and transcribe are not
\* invoked in that invocation, process_video returns None, the cleanup
\* block still runs, and no step runs twice in an invocation.
C5Thm ==
    /\ obs.extracts <= 1
    /\ obs.loads <= 1
    /\ obs.transcribes <= 1
    /\ obs.extractRet = "fail" =>
          /\ obs.loads = 0
          /\ obs.transcribes = 0
          /\ result = NONE
          /\ pc \in {"cleanup", "main_result", "idle"}
          /\ (pc # "cleanup" => obs.cleanupRan /\ video_path \in obs.unlinkAttempts)
C5Wit ==
    /\ obs.extractRet = "fail"
    /\ obs.cleanupRan
    /\ "extract" \in errors
    /\ pc = "idle"

\* C6: cleanup attempts the unlink of both staged files, also when the
\* unlink of the video file fails.
C6Claim ==
    obs.cleanupRan => obs.unlinkAttempts = {video_path, audio_path}

\* C7: when staging fails, every staged file already created is deleted
\* before control leaves process_video.
C7Claim ==
    (Left /\ obs.raised) => RunFiles \cap files = {}

\* C8: after extract_audio_from_video has returned, every handle it opened
\* has been closed.
C8Claim ==
    obs.extracts > 0 => obs.opened \subseteq obs.closed

\* C9: an invocation the page reports as failed has shown an error naming
\* the failing stage, and when extraction, load and transcribe all succeed
\* the returned text is stored and shown, the empty string included.
C9Claim ==
    (pc = "idle" /\ Returned) =>
        /\ "failed" \in errors => errors \cap StageErrors # {}
        /\ (obs.extractRet = "ok" /\ obs.text # NONE) =>
              /\ transcription = obs.text
              /\ Displayed = obs.text

\* C10: the stored transcription and processing time change only when
\* process_video has returned a non-empty string, and then to that string;
\* whenever the page is idle the stored and displayed transcription is the
\* last non-empty string process_video returned.
C10Step ==
    /\ (transcription' # transcription \/ processing_time' # processing_time) =>
          /\ pc = "main_result"
          /\ result # NONE
          /\ result # ""
          /\ transcription' = result
    /\ pc' = "idle" =>
          /\ transcription' = lastGood'
          /\ Displayed' = lastGood'
C10Thm == [][C10Step]_vars
C10Wit ==
    /\ pc = "idle"
    /\ Returned
    /\ "failed" \in errors
    /\ transcription = "hello world"
    /\ lastGood = "hello world"
====
